---- MODULE Spec2Model ----
(***************************************************************************)
(* Session orchestrator of the interview backend                           *)
(* (src/project/src/services/socketService.js) together with the HTTP      *)
(* end endpoint (src/unnamed/part_001) and the result shapes of the        *)
(* transcriber (src/unnamed/part_000).                                     *)
(*                                                                         *)
(* Every socket handler is an async function.  A handler activation is a   *)
(* record in `tasks`; its pc names the await it is suspended at.  One      *)
(* action is the resolution of one await together with the synchronous     *)
(* code that follows it up to the next await (or the end of the handler).  *)
(* A database call takes effect in the step that resolves it.  Time is     *)
(* counted in whole minutes.                                               *)
(***************************************************************************)
EXTENDS Integers, Sequences, FiniteSets, TLC

\* ---------------------------------------------------------------- bounds
\* Number of handler activations in a run: connections, socket events that
\* reach an await, and HTTP requests that reach an await.
MaxHandlers == 5
\* Number of handler activations suspended at an await at the same time.
MaxInFlight == 2
\* Number of answers the single-connection scenario has room for.
SoloAnswers == 16

\* ------------------------------------------------------- program constants
\* generateNextQuestion: const maxQuestions = 15
maxQuestions == 15
\* startInterviewSchema: duration ... default(30), minutes
DefaultDuration == 30
\* startInterviewSchema: duration ... min(15).max(60)
MinDuration == 15
MaxDuration == 60

\* The clock advances by the length of an interview, once.
TickStep == DefaultDuration
MaxTime == DefaultDuration

\* Socket connections (socket.id), all authenticated as the interview's owner.
Conns == {"c1", "c2"}
\* socket.io hands out fresh ids: "c2" names the socket that connects second.
Earlier(c) == IF c = "c2" THEN {"c1"} ELSE {}
\* Interview documents (_id).
InterviewIds == {"i1"}
\* Users (decoded.userId): the user every socket is authenticated as, and
\* another user.
Owner == "u1"
Users == {Owner, "u2"}
\* socket.userId, set by the authentication middleware.
UserOf(c) == Owner

\* "No value": an empty slot of the session map, an unset date.
Null == 0 - 1

\* The activations of the single-connection scenario are numbered from
\* SoloFirstId: the connection, the join, then SoloAnswers answers.
SoloFirstId == MaxHandlers - SoloAnswers - 1
SoloJoinId == SoloFirstId + 1

\* The activation numbers a session object can be known by (those of joins).
HandlerIds == {SoloJoinId} \cup (1..MaxHandlers)

\* Results of speechToTextService.transcribeAudio as seen by the audio_response
\* handler: it throws, returns null, returns the result object
\* {transcription, confidence, words, languageCode}; the handler itself treats
\* the value as a string (blank or with text).
TranscribeOutcomes == {"throw", "null", "object", "empty", "text"}

\* An awaited collaborator or database call resolves or rejects.
Outcomes == {"ok", "throw"}

VARIABLES
    interviews,        \* Interview collection: _id -> document
    activeInterviews,  \* this.activeInterviews: socket.id -> session object (Null: no entry)
    sessions,          \* the session objects, by identity (the join that created them)
    rooms,             \* socket.io rooms: interview id -> set of sockets
    connected,         \* socket.id -> "new" (not yet connected), "open", "closed"
    tasks,             \* handler activations suspended at an await
    emitted,           \* the socket.emit calls of the last step, in order
    now,               \* new Date(), in minutes
    nextId             \* next handler activation number

vars == <<interviews, activeInterviews, sessions, rooms, connected, tasks, emitted, now, nextId>>

\* A session object that does not exist (not yet created, or unreachable).
NoSession == [interviewId |-> "none", snapQuestions |-> 0, snapStartedAt |-> 0,
              snapDuration |-> 0, currentQuestionIndex |-> 0, isProcessing |-> FALSE,
              created |-> FALSE]

\* The document POST /start saves: in_progress, no questions, no responses.
NewInterview == [userId |-> Owner,
                 status |-> "in_progress", startedAt |-> 0, duration |-> DefaultDuration,
                 endedAt |-> Null, actualDuration |-> Null,
                 questions |-> <<>>, responses |-> <<>>]

\* The service is initialized, no socket is connected yet, and POST /start
\* has created the interviews.
Init ==
    /\ interviews = [i \in InterviewIds |-> NewInterview]
    /\ activeInterviews = [c \in Conns |-> Null]
    /\ sessions = [s \in HandlerIds |-> NoSession]
    /\ rooms = [i \in InterviewIds |-> {}]
    /\ connected = [c \in Conns |-> "new"]
    /\ tasks = {}
    /\ emitted = <<>>
    /\ now = 0
    /\ nextId = 1

\* ---------------------------------------------------------------- helpers
\* An outbound event: its name, the message of an error event or the status
\* of a processing_response, and the number it carries (questionNumber or
\* totalQuestions; 0 when it carries none).
Event(type, msg, n) == [type |-> type, msg |-> msg, n |-> n]

\* socket.emit(event, ...) on socket c.
Emit(c, ev) == <<[to |-> c, ev |-> ev]>>

\* A handler activation: the socket, the interview, the await it is at, the
\* session object it holds and the endedAt it has computed.
Task(id, kind, c, i, pc, s, at) ==
    [id |-> id, kind |-> kind, conn |-> c, iid |-> i, pc |-> pc, sess |-> s, endAt |-> at]

\* The activation moves to its next await.
Goto(t, pc) == (tasks \ {t}) \cup {[t EXCEPT !.pc = pc]}

\* The session objects that are still referenced, by the map a or by an
\* activation of ts; an unreferenced object is gone.
Live(h, a, ts) ==
    [s \in HandlerIds |->
        IF (\E c \in Conns : a[c] = s) \/ (\E t \in ts : t.sess = s) THEN h[s] ELSE NoSession]

\* Math.round((end - start) / (1000 * 60)) on whole minutes.
Minutes(start, end) == end - start

\* A push that puts the new question in front ($position: 0).
PushQuestion_Prepend(i, q) ==
    [interviews EXCEPT ![i].questions = <<q>> \o @]

\* Interview.findByIdAndUpdate(id, { $push: { questions: q } })
PushQuestion(i, q) ==
    [interviews EXCEPT ![i].questions = Append(@, q)]

\* Interview.findByIdAndUpdate(id, { $push: { responses: r } })
PushResponse(i, r) ==
    [interviews EXCEPT ![i].responses = Append(@, r)]

\* The update of endInterview / the save of POST /:interviewId/end.
SetCompleted(i, endedAt, actualDuration) ==
    [interviews EXCEPT ![i].status = "completed",
                       ![i].endedAt = endedAt,
                       ![i].actualDuration = actualDuration]

\* ------------------------------------------------------------------ clock
Tick ==
    /\ now + TickStep <= MaxTime
    /\ now' = now + TickStep
    /\ emitted' = <<>>
    /\ UNCHANGED <<interviews, activeInterviews, sessions, rooms, connected, tasks, nextId>>

\* -------------------------------------------------------------- connection
\* io.on('connection') after the authentication middleware: handleConnection
\* registers the handlers of the socket.
Connect(c) ==
    /\ connected[c] = "new"
    /\ \A d \in Earlier(c) : connected[d] # "new"
    /\ nextId <= MaxHandlers
    /\ nextId' = nextId + 1
    /\ connected' = [connected EXCEPT ![c] = "open"]
    /\ emitted' = <<>>
    /\ UNCHANGED <<interviews, activeInterviews, sessions, rooms, tasks, now>>

\* -------------------------------------------------------- join_interview
\* socket.on('join_interview'): the handler starts and awaits Interview.findOne.
JoinInterview(c, i) ==
    /\ connected[c] = "open"
    /\ nextId <= MaxHandlers
    /\ Cardinality(tasks) < MaxInFlight
    /\ tasks' = tasks \cup {Task(nextId, "join", c, i, "findOne", Null, Null)}
    /\ nextId' = nextId + 1
    /\ emitted' = <<>>
    /\ UNCHANGED <<interviews, activeInterviews, sessions, rooms, connected, now>>

\* A session whose question counter starts at zero whatever the interview holds.
NewSession_ZeroIndex(i, doc) ==
    [interviewId |-> i, snapQuestions |-> Len(doc.questions), snapStartedAt |-> doc.startedAt,
     snapDuration |-> doc.duration, currentQuestionIndex |-> 0,
     isProcessing |-> FALSE, created |-> TRUE]

\* The session object join_interview stores for an interview document.
NewSession(i, doc) ==
    [interviewId |-> i, snapQuestions |-> Len(doc.questions), snapStartedAt |-> doc.startedAt,
     snapDuration |-> doc.duration, currentQuestionIndex |-> Len(doc.questions),
     isProcessing |-> FALSE, created |-> TRUE]

\* A filter that does not look at the owner of the document.
Found_IgnoresOwner(c, doc) == doc.status = "in_progress"

\* The filter of Interview.findOne in join_interview, on the document stored
\* under the _id: { userId: socket.userId, status: 'in_progress' }.
Found(c, doc) == doc.userId = UserOf(c) /\ doc.status = "in_progress"

\* findOne({_id, userId, status: 'in_progress'}) resolves; the handler runs to
\* the await in generateAndSendFirstQuestion or to its end.
JoinFindOne(t, o) ==
    /\ t \in tasks /\ t.kind = "join" /\ t.pc = "findOne"
    /\ UNCHANGED <<interviews, connected, now, nextId>>
    /\ LET c == t.conn
           i == t.iid
           doc == interviews[i]
       IN IF o = "throw"
          THEN /\ emitted' = Emit(c, Event("error", "Failed to join interview session", 0))
               /\ tasks' = tasks \ {t}
               /\ UNCHANGED <<activeInterviews, rooms>>
               /\ sessions' = Live(sessions, activeInterviews', tasks')
          ELSE IF ~Found(c, doc)
          THEN /\ emitted' = Emit(c, Event("error", "Invalid or inactive interview session", 0))
               /\ tasks' = tasks \ {t}
               /\ UNCHANGED <<activeInterviews, rooms>>
               /\ sessions' = Live(sessions, activeInterviews', tasks')
          ELSE /\ rooms' = [rooms EXCEPT ![i] = @ \cup {c}]
               /\ activeInterviews' = [activeInterviews EXCEPT ![c] = t.id]
               /\ IF Len(doc.questions) = 0
                  THEN /\ tasks' = Goto(t, "generateFirst")
                       /\ emitted' = <<>>
                  ELSE /\ emitted' = Emit(c, Event("interview_state", "", Len(doc.questions)))
                       /\ tasks' = tasks \ {t}
               /\ sessions' = Live([sessions EXCEPT ![t.id] = NewSession(i, doc)],
                                   activeInterviews', tasks')

\* generateAndSendFirstQuestion: its catch swallows every failure.
FirstQuestionFailed(t) ==
    /\ emitted' = Emit(t.conn, Event("error", "Failed to generate first question", 0))
    /\ tasks' = tasks \ {t}
    /\ UNCHANGED <<interviews, activeInterviews, rooms, connected, now, nextId>>
    /\ sessions' = Live(sessions, activeInterviews', tasks')

\* questionGenerationService.generateFirstQuestion resolves.
JoinGenerateFirst(t, o) ==
    /\ t \in tasks /\ t.kind = "join" /\ t.pc = "generateFirst"
    /\ IF o = "throw"
       THEN FirstQuestionFailed(t)
       ELSE /\ tasks' = Goto(t, "synthesizeFirst")
            /\ emitted' = <<>>
            /\ UNCHANGED <<interviews, activeInterviews, sessions, rooms, connected, now, nextId>>

\* textToSpeechService.synthesizeSpeech(firstQuestion.text) resolves.
JoinSynthesizeFirst(t, o) ==
    /\ t \in tasks /\ t.kind = "join" /\ t.pc = "synthesizeFirst"
    /\ IF o = "throw"
       THEN FirstQuestionFailed(t)
       ELSE /\ tasks' = Goto(t, "pushFirst")
            /\ emitted' = <<>>
            /\ UNCHANGED <<interviews, activeInterviews, sessions, rooms, connected, now, nextId>>

\* A first-question step that sends the question even when storing it failed.
JoinPushFirst_SendsUnpersisted(t, o) ==
    /\ t \in tasks /\ t.kind = "join" /\ t.pc = "pushFirst"
    /\ interviews' = IF o = "throw" THEN interviews
                     ELSE PushQuestion(t.iid, [by |-> t.id, first |-> TRUE])
    /\ emitted' = Emit(t.conn, Event("first_question", "", 1))
    /\ tasks' = tasks \ {t}
    /\ UNCHANGED <<activeInterviews, rooms, connected, now, nextId>>
    /\ sessions' = Live(sessions, activeInterviews', tasks')

\* A first-question step that applies the check of generateNextQuestion and
\* ends the interview when its time is up.
JoinPushFirst_ChecksPolicy(t, o) ==
    /\ t \in tasks /\ t.kind = "join" /\ t.pc = "pushFirst"
    /\ IF o = "throw"
       THEN FirstQuestionFailed(t)
       ELSE /\ interviews' = IF Minutes(interviews[t.iid].startedAt, now) >= interviews[t.iid].duration
                             THEN SetCompleted(t.iid, now, Minutes(interviews[t.iid].startedAt, now))
                             ELSE PushQuestion(t.iid, [by |-> t.id, first |-> TRUE])
            /\ emitted' = IF Minutes(interviews[t.iid].startedAt, now) >= interviews[t.iid].duration
                          THEN Emit(t.conn, Event("interview_ended", "", 0))
                          ELSE Emit(t.conn, Event("first_question", "", 1))
            /\ tasks' = tasks \ {t}
            /\ UNCHANGED <<activeInterviews, rooms, connected, now, nextId>>
            /\ sessions' = Live(sessions, activeInterviews', tasks')

\* $push of the first question resolves; first_question is sent.
JoinPushFirst(t, o) ==
    /\ t \in tasks /\ t.kind = "join" /\ t.pc = "pushFirst"
    /\ IF o = "throw"
       THEN FirstQuestionFailed(t)
       ELSE /\ interviews' = PushQuestion(t.iid, [by |-> t.id, first |-> TRUE])
            /\ emitted' = Emit(t.conn, Event("first_question", "", 1))
            /\ tasks' = tasks \ {t}
            /\ UNCHANGED <<activeInterviews, rooms, connected, now, nextId>>
            /\ sessions' = Live(sessions, activeInterviews', tasks')

\* -------------------------------------------------------- audio_response
\* A catch block that reports the failure and leaves the latch as it is.
AudioCatch_KeepsLatch(t) ==
    /\ emitted' = Emit(t.conn, Event("error", "Failed to process response", 0))
    /\ tasks' = tasks \ {t}
    /\ UNCHANGED <<interviews, activeInterviews, rooms, connected, now, nextId>>
    /\ sessions' = Live(sessions, activeInterviews', tasks')

\* The catch block of the audio_response handler: it looks the session up
\* again in the map and clears the latch of whatever session is stored there.
AudioCatch(t) ==
    /\ emitted' = Emit(t.conn, Event("error", "Failed to process response", 0))
    /\ tasks' = tasks \ {t}
    /\ UNCHANGED <<interviews, activeInterviews, rooms, connected, now, nextId>>
    /\ sessions' = Live(IF activeInterviews[t.conn] # Null
                        THEN [sessions EXCEPT ![activeInterviews[t.conn]].isProcessing = FALSE]
                        ELSE sessions,
                        activeInterviews', tasks')

\* A guard that resets the latch of the stored session when it rejects.
AudioResponse_ResetsLatch(c) ==
    /\ connected[c] = "open"
    /\ IF activeInterviews[c] = Null \/ sessions[activeInterviews[c]].isProcessing
       THEN /\ emitted' = Emit(c, Event("error", "Invalid session or already processing", 0))
            /\ sessions' = IF activeInterviews[c] = Null THEN sessions
                           ELSE [sessions EXCEPT ![activeInterviews[c]].isProcessing = FALSE]
            /\ UNCHANGED <<tasks, nextId>>
       ELSE /\ nextId <= MaxHandlers
            /\ Cardinality(tasks) < MaxInFlight
            /\ nextId' = nextId + 1
            /\ sessions' = [sessions EXCEPT ![activeInterviews[c]].isProcessing = TRUE]
            /\ emitted' = Emit(c, Event("processing_response", "transcribing", 0))
            /\ tasks' = tasks \cup {Task(nextId, "audio", c, sessions[activeInterviews[c]].interviewId,
                                         "transcribe", activeInterviews[c], Null)}
    /\ UNCHANGED <<interviews, activeInterviews, rooms, connected, now>>

\* socket.on('audio_response'): guard, latch, 'transcribing', await transcribeAudio.
AudioResponse(c) ==
    /\ connected[c] = "open"
    /\ IF activeInterviews[c] = Null \/ sessions[activeInterviews[c]].isProcessing
       THEN /\ emitted' = Emit(c, Event("error", "Invalid session or already processing", 0))
            /\ UNCHANGED <<sessions, tasks, nextId>>
       ELSE /\ nextId <= MaxHandlers
            /\ Cardinality(tasks) < MaxInFlight
            /\ nextId' = nextId + 1
            /\ sessions' = [sessions EXCEPT ![activeInterviews[c]].isProcessing = TRUE]
            /\ emitted' = Emit(c, Event("processing_response", "transcribing", 0))
            /\ tasks' = tasks \cup {Task(nextId, "audio", c, sessions[activeInterviews[c]].interviewId,
                                         "transcribe", activeInterviews[c], Null)}
    /\ UNCHANGED <<interviews, activeInterviews, rooms, connected, now>>

\* transcribeAudio resolves.  `!transcription || transcription.trim().length === 0`:
\* null and a blank string take the early return; the result object has no trim
\* method, so the call throws a TypeError into the catch block.
AudioTranscribe(t, o) ==
    /\ t \in tasks /\ t.kind = "audio" /\ t.pc = "transcribe"
    /\ IF o \in {"throw", "object"}
       THEN AudioCatch(t)
       ELSE IF o \in {"null", "empty"}
       THEN /\ emitted' = Emit(t.conn, Event("error", "Could not transcribe audio. Please try again.", 0))
            /\ tasks' = tasks \ {t}
            /\ UNCHANGED <<interviews, activeInterviews, rooms, connected, now, nextId>>
            /\ sessions' = Live([sessions EXCEPT ![t.sess].isProcessing = FALSE],
                                activeInterviews', tasks')
       ELSE /\ emitted' = Emit(t.conn, Event("processing_response", "analyzing", 0))
            /\ tasks' = Goto(t, "analyze")
            /\ UNCHANGED <<interviews, activeInterviews, sessions, rooms, connected, now, nextId>>

\* A handler that persists the transcript alone when the scorer fails.
AudioAnalyze_PersistsTranscript(t, o) ==
    /\ t \in tasks /\ t.kind = "audio" /\ t.pc = "analyze"
    /\ IF o = "throw"
       THEN /\ interviews' = PushResponse(sessions[t.sess].interviewId, [by |-> t.id])
            /\ emitted' = Emit(t.conn, Event("error", "Failed to process response", 0))
            /\ tasks' = tasks \ {t}
            /\ UNCHANGED <<activeInterviews, rooms, connected, now, nextId>>
            /\ sessions' = Live([sessions EXCEPT ![t.sess].isProcessing = FALSE],
                                activeInterviews', tasks')
       ELSE /\ tasks' = Goto(t, "pushResponse")
            /\ emitted' = <<>>
            /\ UNCHANGED <<interviews, activeInterviews, sessions, rooms, connected, now, nextId>>

\* sentimentAnalysisService.analyzeSentiment resolves; the response is built
\* and the $push of the response is awaited.
AudioAnalyze(t, o) ==
    /\ t \in tasks /\ t.kind = "audio" /\ t.pc = "analyze"
    /\ IF o = "throw"
       THEN AudioCatch(t)
       ELSE /\ tasks' = Goto(t, "pushResponse")
            /\ emitted' = <<>>
            /\ UNCHANGED <<interviews, activeInterviews, sessions, rooms, connected, now, nextId>>

\* A check with strict comparisons: it ends only after the duration has been
\* exceeded or the ceiling has been passed.
ShouldEnd_Strict(s, t) ==
    \/ Minutes(s.snapStartedAt, t) > s.snapDuration
    \/ s.snapQuestions > maxQuestions

\* generateNextQuestion's check on the session's interview snapshot:
\* timeElapsed >= interview.duration || interview.questions.length >= maxQuestions.
ShouldEnd(s, t) ==
    \/ Minutes(s.snapStartedAt, t) >= s.snapDuration
    \/ s.snapQuestions >= maxQuestions

\* A handler that does not announce the generation of the next question.
AudioPushResponse_SkipsStatus(t, o) ==
    /\ t \in tasks /\ t.kind = "audio" /\ t.pc = "pushResponse"
    /\ IF o = "throw"
       THEN AudioCatch(t)
       ELSE /\ interviews' = PushResponse(sessions[t.sess].interviewId, [by |-> t.id])
            /\ emitted' = <<>>
            /\ tasks' = IF ShouldEnd(sessions[t.sess], now)
                        THEN (tasks \ {t}) \cup {[t EXCEPT !.pc = "endUpdate", !.endAt = now]}
                        ELSE Goto(t, "generate")
            /\ UNCHANGED <<activeInterviews, sessions, rooms, connected, now, nextId>>

\* $push of the response resolves; 'generating_question'; generateNextQuestion
\* either returns null, which leads into endInterview and its await of the
\* status update, or awaits generateFollowUpQuestion.
AudioPushResponse(t, o) ==
    /\ t \in tasks /\ t.kind = "audio" /\ t.pc = "pushResponse"
    /\ IF o = "throw"
       THEN AudioCatch(t)
       ELSE /\ interviews' = PushResponse(sessions[t.sess].interviewId, [by |-> t.id])
            /\ emitted' = Emit(t.conn, Event("processing_response", "generating_question", 0))
            /\ tasks' = IF ShouldEnd(sessions[t.sess], now)
                        THEN (tasks \ {t}) \cup {[t EXCEPT !.pc = "endUpdate", !.endAt = now]}
                        ELSE Goto(t, "generate")
            /\ UNCHANGED <<activeInterviews, sessions, rooms, connected, now, nextId>>

\* A handler for which a failed generation is fatal to the session: it
\* removes the session from the map.
AudioGenerate_DropsSession(t, o) ==
    /\ t \in tasks /\ t.kind = "audio" /\ t.pc = "generate"
    /\ IF o = "throw"
       THEN /\ emitted' = Emit(t.conn, Event("error", "Failed to process response", 0))
            /\ tasks' = tasks \ {t}
            /\ activeInterviews' = [activeInterviews EXCEPT ![t.conn] = Null]
            /\ UNCHANGED <<interviews, rooms, connected, now, nextId>>
            /\ sessions' = Live(sessions, activeInterviews', tasks')
       ELSE /\ tasks' = Goto(t, "synthesize")
            /\ emitted' = <<>>
            /\ UNCHANGED <<interviews, activeInterviews, sessions, rooms, connected, now, nextId>>

\* questionGenerationService.generateFollowUpQuestion resolves.
AudioGenerate(t, o) ==
    /\ t \in tasks /\ t.kind = "audio" /\ t.pc = "generate"
    /\ IF o = "throw"
       THEN AudioCatch(t)
       ELSE /\ tasks' = Goto(t, "synthesize")
            /\ emitted' = <<>>
            /\ UNCHANGED <<interviews, activeInterviews, sessions, rooms, connected, now, nextId>>

\* textToSpeechService.synthesizeSpeech(nextQuestion.text) resolves.
AudioSynthesize(t, o) ==
    /\ t \in tasks /\ t.kind = "audio" /\ t.pc = "synthesize"
    /\ IF o = "throw"
       THEN AudioCatch(t)
       ELSE /\ tasks' = Goto(t, "pushQuestion")
            /\ emitted' = <<>>
            /\ UNCHANGED <<interviews, activeInterviews, sessions, rooms, connected, now, nextId>>

\* A handler that ignores a failed $push of the question and goes on as if
\* it had been stored.
AudioPushQuestion_IgnoresFailure(t, o) ==
    /\ t \in tasks /\ t.kind = "audio" /\ t.pc = "pushQuestion"
    /\ interviews' = IF o = "throw" THEN interviews
                     ELSE PushQuestion(sessions[t.sess].interviewId, [by |-> t.id, first |-> FALSE])
    /\ emitted' = Emit(t.conn, Event("next_question", "",
                                     sessions[t.sess].currentQuestionIndex + 2))
    /\ tasks' = tasks \ {t}
    /\ UNCHANGED <<activeInterviews, rooms, connected, now, nextId>>
    /\ sessions' = Live([sessions EXCEPT ![t.sess].currentQuestionIndex = @ + 1,
                                         ![t.sess].isProcessing = FALSE],
                        activeInterviews', tasks')

\* $push of the question resolves; currentQuestionIndex++, 'next_question'
\* with questionNumber = currentQuestionIndex + 1, session.isProcessing = false
\* on the session object the handler holds.
AudioPushQuestion(t, o) ==
    /\ t \in tasks /\ t.kind = "audio" /\ t.pc = "pushQuestion"
    /\ IF o = "throw"
       THEN AudioCatch(t)
       ELSE /\ interviews' = PushQuestion(sessions[t.sess].interviewId,
                                          [by |-> t.id, first |-> FALSE])
            /\ emitted' = Emit(t.conn, Event("next_question", "",
                                             sessions[t.sess].currentQuestionIndex + 2))
            /\ tasks' = tasks \ {t}
            /\ UNCHANGED <<activeInterviews, rooms, connected, now, nextId>>
            /\ sessions' = Live([sessions EXCEPT ![t.sess].currentQuestionIndex = @ + 1,
                                                 ![t.sess].isProcessing = FALSE],
                                activeInterviews', tasks')

\* ------------------------------------------------------------ endInterview
\* An endInterview that forgets this.activeInterviews.delete(socket.id).
EndInterviewDone_KeepsSession(t) ==
    LET s == sessions[t.sess] IN
    /\ interviews' = SetCompleted(s.interviewId, t.endAt, Minutes(s.snapStartedAt, t.endAt))
    /\ rooms' = [rooms EXCEPT ![s.interviewId] = @ \ {t.conn}]
    /\ activeInterviews' = activeInterviews
    /\ emitted' = Emit(t.conn, Event("interview_ended", "",
                                     s.snapQuestions + s.currentQuestionIndex))
    /\ tasks' = tasks \ {t}

\* endInterview after its status update resolved: the document is completed
\* with the dates computed when the update was issued, the socket leaves the
\* room, the map entry of the socket is deleted, 'interview_ended' is sent
\* with totalQuestions = interview.questions.length + currentQuestionIndex.
EndInterviewDone(t) ==
    LET s == sessions[t.sess] IN
    /\ interviews' = SetCompleted(s.interviewId, t.endAt, Minutes(s.snapStartedAt, t.endAt))
    /\ rooms' = [rooms EXCEPT ![s.interviewId] = @ \ {t.conn}]
    /\ activeInterviews' = [activeInterviews EXCEPT ![t.conn] = Null]
    /\ emitted' = Emit(t.conn, Event("interview_ended", "",
                                     s.snapQuestions + s.currentQuestionIndex))
    /\ tasks' = tasks \ {t}

\* A handler without a catch block around endInterview: the rethrown failure
\* leaves the handler, nothing is sent and the latch stays set.
AudioEndUpdate_Escapes(t, o) ==
    /\ t \in tasks /\ t.kind = "audio" /\ t.pc = "endUpdate"
    /\ IF o = "throw"
       THEN /\ emitted' = <<>>
            /\ tasks' = tasks \ {t}
            /\ UNCHANGED <<interviews, activeInterviews, rooms, connected, now, nextId>>
            /\ sessions' = Live(sessions, activeInterviews', tasks')
       ELSE /\ EndInterviewDone(t)
            /\ UNCHANGED <<connected, now, nextId>>
            /\ sessions' = Live([sessions EXCEPT ![t.sess].isProcessing = FALSE],
                                activeInterviews', tasks')

\* The status update issued from the audio_response handler resolves; after
\* endInterview returns the handler clears the latch of the session it holds.
\* A rejected update is rethrown by endInterview into the handler's catch.
AudioEndUpdate(t, o) ==
    /\ t \in tasks /\ t.kind = "audio" /\ t.pc = "endUpdate"
    /\ IF o = "throw"
       THEN AudioCatch(t)
       ELSE /\ EndInterviewDone(t)
            /\ UNCHANGED <<connected, now, nextId>>
            /\ sessions' = Live([sessions EXCEPT ![t.sess].isProcessing = FALSE],
                                activeInterviews', tasks')

\* socket.on('end_interview'): with a session, endInterview is entered and
\* awaits the status update; without one the handler does nothing.
EndInterview(c) ==
    /\ connected[c] = "open"
    /\ IF activeInterviews[c] = Null
       THEN UNCHANGED <<tasks, nextId>>
       ELSE /\ nextId <= MaxHandlers
            /\ Cardinality(tasks) < MaxInFlight
            /\ nextId' = nextId + 1
            /\ tasks' = tasks \cup {Task(nextId, "end", c, sessions[activeInterviews[c]].interviewId,
                                         "endUpdate", activeInterviews[c], now)}
    /\ emitted' = <<>>
    /\ UNCHANGED <<interviews, activeInterviews, sessions, rooms, connected, now>>

\* The status update issued from the end_interview handler resolves.
EndUpdate(t, o) ==
    /\ t \in tasks /\ t.kind = "end" /\ t.pc = "endUpdate"
    /\ IF o = "throw"
       THEN /\ emitted' = Emit(t.conn, Event("error", "Failed to end interview", 0))
            /\ tasks' = tasks \ {t}
            /\ UNCHANGED <<interviews, activeInterviews, rooms, connected, now, nextId>>
            /\ sessions' = Live(sessions, activeInterviews', tasks')
       ELSE /\ EndInterviewDone(t)
            /\ UNCHANGED <<connected, now, nextId>>
            /\ sessions' = Live(sessions, activeInterviews', tasks')

\* -------------------------------------------------------------- disconnect
\* A disconnect handler that ends the interview of the session it removes.
Disconnect_EndsInterview(c) ==
    /\ connected[c] = "open"
    /\ connected' = [connected EXCEPT ![c] = "closed"]
    /\ rooms' = [i \in InterviewIds |-> rooms[i] \ {c}]
    /\ activeInterviews' = [activeInterviews EXCEPT ![c] = Null]
    /\ emitted' = <<>>
    /\ interviews' = IF activeInterviews[c] = Null THEN interviews
                     ELSE SetCompleted(sessions[activeInterviews[c]].interviewId, now,
                                       Minutes(sessions[activeInterviews[c]].snapStartedAt, now))
    /\ UNCHANGED <<tasks, now, nextId>>
    /\ sessions' = Live(sessions, activeInterviews', tasks')

\* socket.on('disconnect'): the transport is closed, socket.io has removed the
\* socket from its rooms, the handler deletes the map entry.
Disconnect(c) ==
    /\ connected[c] = "open"
    /\ connected' = [connected EXCEPT ![c] = "closed"]
    /\ rooms' = [i \in InterviewIds |-> rooms[i] \ {c}]
    /\ activeInterviews' = [activeInterviews EXCEPT ![c] = Null]
    /\ emitted' = <<>>
    /\ UNCHANGED <<interviews, tasks, now, nextId>>
    /\ sessions' = Live(sessions, activeInterviews', tasks')

\* ------------------------------------------------------------------ typing
\* The sockets in the order in which a broadcast reaches them.
ConnOrder == <<"c1", "c2">>

\* socket.to(room).emit(event): one emit to every socket of the set.
Broadcast(to, ev) ==
    LET dest == SelectSeq(ConnOrder, LAMBDA c : c \in to)
    IN [k \in 1..Len(dest) |-> [to |-> dest[k], ev |-> ev]]

\* A typing handler that emits to the whole room, sender included
\* (io.to(room) instead of socket.to(room)).
Typing_EchoesToSender(c) ==
    /\ connected[c] = "open"
    /\ emitted' = IF activeInterviews[c] = Null
                  THEN <<>>
                  ELSE Broadcast(rooms[sessions[activeInterviews[c]].interviewId],
                                 Event("user_typing", "", 0))
    /\ UNCHANGED <<interviews, activeInterviews, sessions, rooms, connected, tasks, now, nextId>>

\* socket.on('typing'): with a session, user_typing goes to the room of the
\* session's interview except the sender; without one nothing happens.
Typing(c) ==
    /\ connected[c] = "open"
    /\ emitted' = IF activeInterviews[c] = Null
                  THEN <<>>
                  ELSE Broadcast(rooms[sessions[activeInterviews[c]].interviewId] \ {c},
                                 Event("user_typing", "", 0))
    /\ UNCHANGED <<interviews, activeInterviews, sessions, rooms, connected, tasks, now, nextId>>

\* ------------------------------------------------ POST /:interviewId/end
\* The request of the user: findOne({_id, userId, status: 'in_progress'})
\* resolves; 404 or 500 end the request, otherwise the document is changed in
\* memory and save() is awaited.
HttpEnd(i, o) ==
    /\ IF o = "throw" \/ interviews[i].userId # Owner \/ interviews[i].status # "in_progress"
       THEN UNCHANGED <<tasks, nextId>>
       ELSE /\ nextId <= MaxHandlers
            /\ Cardinality(tasks) < MaxInFlight
            /\ nextId' = nextId + 1
            /\ tasks' = tasks \cup {Task(nextId, "http", "none", i, "save", Null, now)}
    /\ emitted' = <<>>
    /\ UNCHANGED <<interviews, activeInterviews, sessions, rooms, connected, now>>

\* interview.save() resolves: status, endedAt and actualDuration are written.
HttpEndSave(t, o) ==
    /\ t \in tasks /\ t.kind = "http" /\ t.pc = "save"
    /\ interviews' = IF o = "throw" THEN interviews
                     ELSE SetCompleted(t.iid, t.endAt, Minutes(interviews[t.iid].startedAt, t.endAt))
    /\ tasks' = tasks \ {t}
    /\ emitted' = <<>>
    /\ UNCHANGED <<activeInterviews, sessions, rooms, connected, now, nextId>>

Next ==
    \/ Tick
    \/ \E c \in Conns : Connect(c)
    \/ \E c \in Conns, i \in InterviewIds : JoinInterview(c, i)
    \/ \E t \in tasks, o \in Outcomes : JoinFindOne(t, o)
    \/ \E t \in tasks, o \in Outcomes : JoinGenerateFirst(t, o)
    \/ \E t \in tasks, o \in Outcomes : JoinSynthesizeFirst(t, o)
    \/ \E t \in tasks, o \in Outcomes : JoinPushFirst(t, o)
    \/ \E c \in Conns : AudioResponse(c)
    \/ \E t \in tasks, o \in TranscribeOutcomes : AudioTranscribe(t, o)
    \/ \E t \in tasks, o \in Outcomes : AudioAnalyze(t, o)
    \/ \E t \in tasks, o \in Outcomes : AudioPushResponse(t, o)
    \/ \E t \in tasks, o \in Outcomes : AudioGenerate(t, o)
    \/ \E t \in tasks, o \in Outcomes : AudioSynthesize(t, o)
    \/ \E t \in tasks, o \in Outcomes : AudioPushQuestion(t, o)
    \/ \E t \in tasks, o \in Outcomes : AudioEndUpdate(t, o)
    \/ \E c \in Conns : EndInterview(c)
    \/ \E t \in tasks, o \in Outcomes : EndUpdate(t, o)
    \/ \E c \in Conns : Disconnect(c)
    \/ \E c \in Conns : Typing(c)
    \/ \E i \in InterviewIds, o \in Outcomes : HttpEnd(i, o)
    \/ \E t \in tasks, o \in Outcomes : HttpEndSave(t, o)

Spec == Init /\ [][Next]_vars

\* The awaited call of activation t resolves or rejects.
Resolve(t) ==
    \/ \E o \in Outcomes : JoinFindOne(t, o)
    \/ \E o \in Outcomes : JoinGenerateFirst(t, o)
    \/ \E o \in Outcomes : JoinSynthesizeFirst(t, o)
    \/ \E o \in Outcomes : JoinPushFirst(t, o)
    \/ \E o \in TranscribeOutcomes : AudioTranscribe(t, o)
    \/ \E o \in Outcomes : AudioAnalyze(t, o)
    \/ \E o \in Outcomes : AudioPushResponse(t, o)
    \/ \E o \in Outcomes : AudioGenerate(t, o)
    \/ \E o \in Outcomes : AudioSynthesize(t, o)
    \/ \E o \in Outcomes : AudioPushQuestion(t, o)
    \/ \E o \in Outcomes : AudioEndUpdate(t, o)
    \/ \E o \in Outcomes : EndUpdate(t, o)
    \/ \E o \in Outcomes : HttpEndSave(t, o)

\* Every collaborator and database call eventually returns or fails: a
\* suspended activation does not stay suspended forever.
LiveSpec ==
    Init /\ [][Next]_vars /\ WF_vars(\E t \in tasks : Resolve(t))


\* ------------------------------------------- single-connection scenario
\* One socket has joined the interview and its collaborators succeed: the
\* first question (if the interview had none) and then answer after answer,
\* with no other socket, no HTTP request and a clock that stands still.
SoloConn == "c1"
SoloInterview == "i1"
Durations == {MinDuration, DefaultDuration, MaxDuration}
SoloCounts == {0, 1, maxQuestions - 1, maxQuestions, maxQuestions + 1}
SoloTimes == UNION {{0, d - 1, d} : d \in Durations}

\* Questions and responses persisted by earlier sessions of the interview.
PriorQuestions(n) == [k \in 1..n |-> [by |-> SoloFirstId, first |-> (k = 1)]]
PriorResponses(n) == [k \in 1..(n - 1) |-> [by |-> SoloFirstId]]

\* The state right after join_interview found the interview: the socket is in
\* the room, the session is stored, and the handler awaits the first question
\* or has sent interview_state.
SoloInit ==
    \E n \in SoloCounts, d \in Durations, e \in SoloTimes :
        LET doc == [NewInterview EXCEPT !.duration = d,
                                        !.questions = PriorQuestions(n),
                                        !.responses = PriorResponses(n)]
        IN /\ interviews = [i \in InterviewIds |-> doc]
           /\ activeInterviews = [c \in Conns |-> IF c = SoloConn THEN SoloJoinId ELSE Null]
           /\ sessions = [s \in HandlerIds |->
                             IF s = SoloJoinId THEN NewSession(SoloInterview, doc) ELSE NoSession]
           /\ rooms = [i \in InterviewIds |-> {SoloConn}]
           /\ connected = [c \in Conns |-> IF c = SoloConn THEN "open" ELSE "new"]
           /\ tasks = IF n = 0
                      THEN {Task(SoloJoinId, "join", SoloConn, SoloInterview, "generateFirst", Null, Null)}
                      ELSE {}
           /\ emitted = IF n = 0 THEN <<>> ELSE Emit(SoloConn, Event("interview_state", "", n))
           /\ now = e
           /\ nextId = SoloJoinId + 1

SoloNext ==
    \/ \E t \in tasks : JoinGenerateFirst(t, "ok")
    \/ \E t \in tasks : JoinSynthesizeFirst(t, "ok")
    \/ \E t \in tasks : JoinPushFirst(t, "ok")
    \/ AudioResponse(SoloConn)
    \/ \E t \in tasks : AudioTranscribe(t, "text")
    \/ \E t \in tasks : AudioAnalyze(t, "ok")
    \/ \E t \in tasks : AudioPushResponse(t, "ok")
    \/ \E t \in tasks : AudioGenerate(t, "ok")
    \/ \E t \in tasks : AudioSynthesize(t, "ok")
    \/ \E t \in tasks : AudioPushQuestion(t, "ok")
    \/ \E t \in tasks : AudioEndUpdate(t, "ok")

SoloSpec == SoloInit /\ [][SoloNext]_vars


\* ------------------------------------------------------------ join scenario
\* The sockets connect, join, type, end and disconnect, against whatever the
\* collection holds under the interview id: no document, a document of the
\* user or of another user, in progress or completed, with or without
\* questions.
NoInterview == [NewInterview EXCEPT !.userId = "none", !.status = "none"]

JoinCounts == {0, 2}

StoredInterview(u, st, n) ==
    [NewInterview EXCEPT !.userId = u,
                         !.status = st,
                         !.endedAt = IF st = "completed" THEN 0 ELSE Null,
                         !.actualDuration = IF st = "completed" THEN 0 ELSE Null,
                         !.questions = PriorQuestions(n),
                         !.responses = PriorResponses(n)]

JoinDocs ==
    {NoInterview} \cup
    {StoredInterview(u, st, n) : u \in Users, st \in {"in_progress", "completed"}, n \in JoinCounts}

JoinInit ==
    /\ interviews \in [InterviewIds -> JoinDocs]
    /\ activeInterviews = [c \in Conns |-> Null]
    /\ sessions = [s \in HandlerIds |-> NoSession]
    /\ rooms = [i \in InterviewIds |-> {}]
    /\ connected = [c \in Conns |-> "new"]
    /\ tasks = {}
    /\ emitted = <<>>
    /\ now = 0
    /\ nextId = 1

JoinNext ==
    \/ Tick
    \/ \E c \in Conns : Connect(c)
    \/ \E c \in Conns, i \in InterviewIds : JoinInterview(c, i)
    \/ \E t \in tasks, o \in Outcomes : JoinFindOne(t, o)
    \/ \E t \in tasks, o \in Outcomes : JoinGenerateFirst(t, o)
    \/ \E t \in tasks, o \in Outcomes : JoinSynthesizeFirst(t, o)
    \/ \E t \in tasks, o \in Outcomes : JoinPushFirst(t, o)
    \/ \E c \in Conns : Typing(c)
    \/ \E c \in Conns : EndInterview(c)
    \/ \E t \in tasks, o \in Outcomes : EndUpdate(t, o)
    \/ \E c \in Conns : Disconnect(c)

JoinSpec == JoinInit /\ [][JoinNext]_vars

\* ------------------------------------------------------------ POST /start
\* The requests of the user to start and to end interviews.  The collection
\* has room for the documents StartIds; a document that has not been created
\* is NoInterview.
StartIds == {"i1", "i2"}

\* new Interview(...) gets a fresh _id: the first one that no document and no
\* request holds.
StartIdOrder == <<"i1", "i2">>
FreeIds == {i \in StartIds : interviews[i] = NoInterview /\ ~(\E t \in tasks : t.iid = i)}
FreshId == SelectSeq(StartIdOrder, LAMBDA i : i \in FreeIds)[1]

\* DAF.findOne({ userId }) finds the user's form, finds none, or fails.
DafOutcomes == {"found", "missing", "throw"}

\* Interview.findOne({ userId, status: 'in_progress' }) of user u.
Ongoing(u) == {i \in StartIds : interviews[i].userId = u /\ interviews[i].status = "in_progress"}

\* The collection holds nothing, or an interview in progress of another user.
StartInit ==
    /\ \E d \in {NoInterview, StoredInterview("u2", "in_progress", 0)} :
          interviews = [i \in StartIds |-> IF i = "i2" THEN d ELSE NoInterview]
    /\ activeInterviews = [c \in Conns |-> Null]
    /\ sessions = [s \in HandlerIds |-> NoSession]
    /\ rooms = [i \in InterviewIds |-> {}]
    /\ connected = [c \in Conns |-> "new"]
    /\ tasks = {}
    /\ emitted = <<>>
    /\ now = 0
    /\ nextId = 1

\* POST /start of the user with a valid body: the handler awaits DAF.findOne.
HttpStart ==
    /\ nextId <= MaxHandlers
    /\ Cardinality(tasks) < MaxInFlight
    /\ nextId' = nextId + 1
    /\ tasks' = tasks \cup {Task(nextId, "start", "none", "none", "findDaf", Null, Null)}
    /\ emitted' = <<>>
    /\ UNCHANGED <<interviews, activeInterviews, sessions, rooms, connected, now>>

\* DAF.findOne resolves: without a form the request ends with 400 (500 on a
\* failure), with one the handler awaits the lookup of an ongoing interview.
StartFindDaf(t, o) ==
    /\ t \in tasks /\ t.kind = "start" /\ t.pc = "findDaf"
    /\ tasks' = IF o = "found" THEN Goto(t, "findOngoing") ELSE tasks \ {t}
    /\ emitted' = <<>>
    /\ UNCHANGED <<interviews, activeInterviews, sessions, rooms, connected, now, nextId>>

\* The lookup of an ongoing interview resolves: with one the request ends
\* with 400, without one the document is constructed (status in_progress,
\* startedAt = new Date()) and save() is awaited.
StartFindOngoing(t, o) ==
    /\ t \in tasks /\ t.kind = "start" /\ t.pc = "findOngoing"
    /\ IF o = "throw" \/ Ongoing(Owner) # {}
       THEN tasks' = tasks \ {t}
       ELSE /\ FreeIds # {}
            /\ tasks' = (tasks \ {t}) \cup {[t EXCEPT !.pc = "save", !.iid = FreshId, !.endAt = now]}
    /\ emitted' = <<>>
    /\ UNCHANGED <<interviews, activeInterviews, sessions, rooms, connected, now, nextId>>

\* interview.save() resolves: the document is in the collection (201), or
\* the request ends with 500.
StartSave(t, o) ==
    /\ t \in tasks /\ t.kind = "start" /\ t.pc = "save"
    /\ interviews' = IF o = "throw" THEN interviews
                     ELSE [interviews EXCEPT ![t.iid] = [NewInterview EXCEPT !.startedAt = t.endAt]]
    /\ tasks' = tasks \ {t}
    /\ emitted' = <<>>
    /\ UNCHANGED <<activeInterviews, sessions, rooms, connected, now, nextId>>

StartNext ==
    \/ Tick
    \/ HttpStart
    \/ \E t \in tasks, o \in DafOutcomes : StartFindDaf(t, o)
    \/ \E t \in tasks, o \in Outcomes : StartFindOngoing(t, o)
    \/ \E t \in tasks, o \in Outcomes : StartSave(t, o)
    \/ \E i \in StartIds, o \in Outcomes : HttpEnd(i, o)
    \/ \E t \in tasks, o \in Outcomes : HttpEndSave(t, o)

StartSpec == StartInit /\ [][StartNext]_vars

\* ------------------------------------------------------------------ claims
\* The latch of the session stored for socket c is clear, or c has no session.
Unlatched(c) == activeInterviews[c] = Null \/ ~sessions[activeInterviews[c]].isProcessing

\* The pipeline runs of socket c that are in flight.
RunsOf(c) == {t \in tasks : t.kind = "audio" /\ t.conn = c}

\* The events of the last step, as (socket, event name) pairs.
Sent(c, type) == \E k \in 1..Len(emitted) : emitted[k].to = c /\ emitted[k].ev.type = type

InvalidState(c) == Emit(c, Event("error", "Invalid session or already processing", 0))

\* C1: for every connection at most one pipeline run started by audio_response
\* is in flight at any time.
C1_SingleFlight == \A c \in Conns : Cardinality(RunsOf(c)) <= 1

\* C2: an audio_response handled when the connection has no session, or when
\* the session's isProcessing is true, emits exactly one error event to the
\* sender and changes nothing else: no document, no session, no room, no
\* activation (no collaborator is called).
C2_RejectedHasNoEffect ==
    [][\A c \in Conns :
        (AudioResponse(c) /\ ~(activeInterviews[c] # Null /\ Unlatched(c)))
            => /\ emitted' = InvalidState(c)
               /\ UNCHANGED <<interviews, activeInterviews, sessions, rooms, connected, tasks, now, nextId>>]_vars

\* C2 witness: an audio_response has just been rejected because a run of the
\* stored session is in flight.
C2_Witness ==
    \E c \in Conns : /\ emitted = InvalidState(c)
                     /\ activeInterviews[c] # Null
                     /\ sessions[activeInterviews[c]].isProcessing
                     /\ RunsOf(c) # {}

\* C3: whenever a pipeline run finishes, the session stored for its connection,
\* if there is one, has isProcessing = false and no run of that session is
\* still in flight.
C3_LatchClearAtExit ==
    [][\A t \in tasks :
        (t.kind = "audio" /\ ~(\E u \in tasks' : u.id = t.id))
            => (activeInterviews'[t.conn] # Null
                   => /\ ~sessions'[activeInterviews'[t.conn]].isProcessing
                      /\ ~(\E u \in tasks' : u.kind = "audio" /\ u.sess = activeInterviews'[t.conn]))]_vars

\* C4: every accepted audio_response is eventually followed by a state in
\* which the connection's session has isProcessing = false or is removed.
C4_NeverWedges == \A c \in Conns : (RunsOf(c) # {}) ~> Unlatched(c)

\* C4 witness: a run has just failed into the catch block and the session it
\* leaves in the map is unlatched, with no run in flight.
C4_Witness ==
    \E c \in Conns : /\ emitted = Emit(c, Event("error", "Failed to process response", 0))
                     /\ activeInterviews[c] # Null
                     /\ Unlatched(c)
                     /\ RunsOf(c) = {}

\* C5: the lengths of an interview's questions and responses differ by at
\* most one.
C5_LengthsWithinOne ==
    \A i \in InterviewIds :
        /\ Len(interviews[i].questions) - Len(interviews[i].responses) <= 1
        /\ Len(interviews[i].responses) - Len(interviews[i].questions) <= 1

\* seq2 is seq with exactly one element appended.
AppendedOne(seq, seq2) == Len(seq2) = Len(seq) + 1 /\ SubSeq(seq2, 1, Len(seq)) = seq

\* C6: every step leaves the questions and responses of an interview
\* unchanged or appends exactly one element at the end of one of them.
C6_AppendOnly ==
    [][\A i \in InterviewIds :
        LET q == interviews[i].questions
            r == interviews[i].responses
            q2 == interviews'[i].questions
            r2 == interviews'[i].responses
        IN \/ q2 = q /\ r2 = r
           \/ r2 = r /\ AppendedOne(q, q2)
           \/ q2 = q /\ AppendedOne(r, r2)]_vars

\* C6 witness: a first question, a response and a follow-up question have
\* been appended.
C6_Witness ==
    \E i \in InterviewIds : Len(interviews[i].questions) >= 2 /\ Len(interviews[i].responses) >= 1

C8_CompletedIsFrozen ==
    [][\A i \in InterviewIds :
        interviews[i].status = "completed" => interviews'[i] = interviews[i]]_vars

\* endInterview returns successfully for activation t in this step.
EndInterviewReturns(t) == AudioEndUpdate(t, "ok") \/ EndUpdate(t, "ok")

\* C9: endInterview on an interview that is already completed is a no-op: it
\* does not rewrite endedAt or actualDuration.
C9_EndIsIdempotent ==
    [][\A t \in tasks :
        (EndInterviewReturns(t) /\ interviews[t.iid].status = "completed")
            => /\ interviews'[t.iid].endedAt = interviews[t.iid].endedAt
               /\ interviews'[t.iid].actualDuration = interviews[t.iid].actualDuration]_vars

\* C10: when endInterview returns successfully for a connection, the interview
\* is completed with endedAt set, the connection is not in the interview's
\* room, the map holds no session for the connection, and the step emits
\* exactly one event, interview_ended, to the connection.
C10_EndPostcondition ==
    [][\A t \in tasks :
        EndInterviewReturns(t)
            => /\ interviews'[t.iid].status = "completed"
               /\ interviews'[t.iid].endedAt # Null
               /\ t.conn \notin rooms'[t.iid]
               /\ activeInterviews'[t.conn] = Null
               /\ Len(emitted') = 1
               /\ emitted'[1].to = t.conn
               /\ emitted'[1].ev.type = "interview_ended"]_vars

\* C10 witness: interview_ended has just been sent to a connection whose
\* interview is completed.
C10_Witness ==
    \E c \in Conns, i \in InterviewIds :
        /\ Sent(c, "interview_ended")
        /\ interviews[i].status = "completed"
        /\ activeInterviews[c] = Null
        /\ c \notin rooms[i]

\* C11: the totalQuestions carried by interview_ended equals the number of
\* questions persisted for the interview when endInterview returns.
C11_TotalQuestions ==
    [][\A t \in tasks :
        EndInterviewReturns(t)
            => emitted'[1].ev.n = Len(interviews'[t.iid].questions)]_vars

\* The activation t is suspended at pc in the next state.
GoesTo(t, pc) == \E u \in tasks' : u.id = t.id /\ u.pc = pc

\* C12: the decision of generateNextQuestion is End exactly when the elapsed
\* minutes are at least the duration or the question count is at least 15,
\* and Continue in every other case.
C12_PolicyDecision ==
    [][\A t \in tasks :
        AudioPushResponse(t, "ok")
            => LET s == sessions[t.sess]
                   end == \/ now - s.snapStartedAt >= s.snapDuration
                          \/ s.snapQuestions >= 15
               IN /\ end => GoesTo(t, "endUpdate")
                  /\ ~end => GoesTo(t, "generate")]_vars

\* C12 witness: with zero elapsed time and a question count of 15 the decision
\* was End: the run is in endInterview.
C12_Witness ==
    /\ now = 0
    /\ \E t \in tasks : /\ t.kind = "audio" /\ t.pc = "endUpdate"
                        /\ sessions[t.sess].snapQuestions = 15
                        /\ sessions[t.sess].snapStartedAt = 0

C14_FirstQuestion ==
    [][\A t \in tasks :
        JoinPushFirst(t, "ok")
            => /\ emitted' = Emit(t.conn, Event("first_question", "", 1))
               /\ AppendedOne(interviews[t.iid].questions, interviews'[t.iid].questions)
               /\ activeInterviews'[t.conn] = t.id
                     => sessions'[t.id].currentQuestionIndex = 1]_vars

\* The step emits an error event to socket c.
ErrorSent(c) == \E k \in 1..Len(emitted') : emitted'[k].to = c /\ emitted'[k].ev.type = "error"

\* C15: a transcription that returns the result object of transcribeAudio
\* with non-empty text does not abort the run: the run goes on to the scorer
\* and no error event is sent (so that it can append one response and one
\* question and emit next_question).
C15_ObjectResultContinues ==
    [][\A t \in tasks :
        AudioTranscribe(t, "object") => GoesTo(t, "analyze") /\ ~ErrorSent(t.conn)]_vars

TranscriptionFailed(c) == Emit(c, Event("error", "Could not transcribe audio. Please try again.", 0))
ProcessingFailed(c) == Emit(c, Event("error", "Failed to process response", 0))

\* C16: when the transcriber returns null or blank text, or throws, the run
\* ends in that step with the transcription-failure error event, the
\* interview documents unchanged and the latch of the stored session clear.
C16_TranscriptionFailure ==
    [][\A t \in tasks :
        (\E o \in {"throw", "null", "empty"} : AudioTranscribe(t, o))
            => /\ emitted' = TranscriptionFailed(t.conn)
               /\ interviews' = interviews
               /\ ~(\E u \in tasks' : u.id = t.id)
               /\ Unlatched(t.conn)']_vars

ResponseOnly(t) ==
    /\ \E k \in 1..Len(interviews[t.iid].responses) : interviews[t.iid].responses[k].by = t.id
    /\ ~(\E k \in 1..Len(interviews[t.iid].questions) : interviews[t.iid].questions[k].by = t.id)

\* The session map and the currentQuestionIndex of every stored session are
\* left alone by the step.
SessionsKept ==
    /\ activeInterviews' = activeInterviews
    /\ \A c \in Conns :
          activeInterviews[c] # Null
              => /\ sessions'[activeInterviews[c]].currentQuestionIndex
                       = sessions[activeInterviews[c]].currentQuestionIndex
                 /\ sessions'[activeInterviews[c]].interviewId
                       = sessions[activeInterviews[c]].interviewId

\* C18: when question generation or speech synthesis fails, the response of
\* the run stays persisted with no question for it, the documents (status
\* included) and currentQuestionIndex do not change, the session stays in the
\* map with its latch clear (so the next audio_response passes the guard), and
\* an error event is sent.
C18_GenerationFailure ==
    [][\A t \in tasks :
        (AudioGenerate(t, "throw") \/ AudioSynthesize(t, "throw"))
            => /\ interviews' = interviews
               /\ ResponseOnly(t)
               /\ SessionsKept
               /\ Unlatched(t.conn)'
               /\ emitted' = ProcessingFailed(t.conn)]_vars

\* C18 witness: a run has just ended in the catch block after its response was
\* persisted; the interview is in progress with one question, the session is
\* stored and unlatched.
C18_Witness ==
    \E c \in Conns, i \in InterviewIds :
        /\ emitted = ProcessingFailed(c)
        /\ Len(interviews[i].questions) = 1 /\ Len(interviews[i].responses) = 1
        /\ interviews[i].status = "in_progress"
        /\ activeInterviews[c] # Null /\ Unlatched(c)
        /\ sessions[activeInterviews[c]].currentQuestionIndex = 0
        /\ tasks = {}

Fails(t) ==
    \/ \E o \in {"throw", "null", "object", "empty"} : AudioTranscribe(t, o)
    \/ AudioAnalyze(t, "throw")
    \/ AudioPushResponse(t, "throw")
    \/ AudioGenerate(t, "throw")
    \/ AudioSynthesize(t, "throw")
    \/ AudioPushQuestion(t, "throw")
    \/ AudioEndUpdate(t, "throw")

\* C20: the step in which a pipeline run fails emits exactly one event, an
\* error, to the run's connection and ends the run; the step that ends a run
\* emits exactly one of error, next_question and interview_ended; and a step
\* that moves a run forward emits none of the three.
C20_OneErrorPerFailure ==
    [][\A t \in tasks :
        t.kind = "audio"
            => /\ Fails(t)
                    => /\ Len(emitted') = 1
                       /\ emitted'[1].to = t.conn
                       /\ emitted'[1].ev.type = "error"
                       /\ ~(\E u \in tasks' : u.id = t.id)
               /\ ~(\E u \in tasks' : u.id = t.id)
                    => /\ Len(emitted') = 1
                       /\ emitted'[1].to = t.conn
                       /\ emitted'[1].ev.type \in {"error", "next_question", "interview_ended"}
               /\ (\E u \in tasks' : u.id = t.id /\ u.pc # t.pc)
                    => \A k \in 1..Len(emitted') : emitted'[k].ev.type = "processing_response"]_vars

\* C20 witness: the status update of endInterview, entered from a pipeline
\* run, has just failed: one error event, the interview still in progress
\* with the response of the run persisted, the session still stored.
C20_Witness ==
    \E c \in Conns, i \in InterviewIds :
        /\ emitted = ProcessingFailed(c)
        /\ now >= interviews[i].duration
        /\ interviews[i].status = "in_progress"
        /\ Len(interviews[i].responses) = 1
        /\ activeInterviews[c] # Null /\ Unlatched(c)
        /\ sessions[activeInterviews[c]].snapStartedAt = 0
        /\ tasks = {}

\* C21: handling disconnect removes the connection's session from the map and
\* leaves the interview documents as they are (status, questions, responses);
\* it starts no endInterview, no other activation and sends nothing.
C21_DisconnectKeepsInterview ==
    [][\A c \in Conns :
        Disconnect(c)
            => /\ activeInterviews'[c] = Null
               /\ interviews' = interviews
               /\ tasks' = tasks
               /\ emitted' = <<>>]_vars

\* C21 witness: a connection that had joined the interview has disconnected,
\* the interview is still in progress with its first question, and the other
\* connection holds a session on it.
C21_Witness ==
    \E c, d \in Conns, i \in InterviewIds :
        /\ connected[c] = "closed" /\ activeInterviews[c] = Null
        /\ interviews[i].status = "in_progress"
        /\ Len(interviews[i].questions) = 1
        /\ connected[d] = "open" /\ activeInterviews[d] # Null
        /\ sessions[activeInterviews[d]].snapQuestions = 1
        /\ tasks = {}

\* C22: the map holds no session for a connection whose disconnect has been
\* handled.
C22_NoSessionAfterDisconnect ==
    \A c \in Conns : connected[c] = "closed" => activeInterviews[c] = Null

\* The stored sessions are the same objects with the same content after the step.
StoreUntouched ==
    /\ activeInterviews' = activeInterviews
    /\ \A c \in Conns :
          activeInterviews[c] # Null => sessions'[activeInterviews[c]] = sessions[activeInterviews[c]]

\* C23: a pipeline run whose connection has disconnected sends nothing more to
\* that connection and neither re-creates nor changes a session of the map.
C23_RunAfterDisconnectIsSilent ==
    [][\A t \in tasks :
        (t.kind = "audio" /\ connected[t.conn] = "closed" /\ Resolve(t))
            => /\ ~(\E k \in 1..Len(emitted') : emitted'[k].to = t.conn)
               /\ StoreUntouched]_vars

\* The lookup of join activation t returns a document in this step.
JoinSucceeds(t) == JoinFindOne(t, "ok") /\ Found(t.conn, interviews[t.iid])

\* C24: a join_interview whose lookup returns nothing (no document under the
\* id, a document of another user, or one that is not in progress) emits an
\* error event and does nothing else: the map, its sessions, the rooms and the
\* documents are unchanged and the handler ends without generating a question.
C24_RejectedJoin ==
    [][\A t \in tasks :
        (JoinFindOne(t, "ok") /\ ~(/\ interviews[t.iid].userId = Owner
                                   /\ interviews[t.iid].status = "in_progress"))
            => /\ emitted' = Emit(t.conn, Event("error", "Invalid or inactive interview session", 0))
               /\ StoreUntouched
               /\ rooms' = rooms
               /\ interviews' = interviews
               /\ tasks' = tasks \ {t}]_vars

\* C24 witness: a join of an in-progress interview of another user has just
\* been refused; the connection has no session and is in no room.
C24_Witness ==
    \E c \in Conns, i \in InterviewIds :
        /\ emitted = Emit(c, Event("error", "Invalid or inactive interview session", 0))
        /\ interviews[i].status = "in_progress" /\ interviews[i].userId \in Users \ {Owner}
        /\ activeInterviews[c] = Null
        /\ c \notin rooms[i]

\* C25: a successful join_interview puts the connection in the room of the
\* interview and stores a session for it with isProcessing = false and
\* currentQuestionIndex = the number of questions of the document read.
C25_JoinCreatesSession ==
    [][\A t \in tasks :
        JoinSucceeds(t)
            => /\ t.conn \in rooms'[t.iid]
               /\ activeInterviews'[t.conn] # Null
               /\ sessions'[activeInterviews'[t.conn]].interviewId = t.iid
               /\ ~sessions'[activeInterviews'[t.conn]].isProcessing
               /\ sessions'[activeInterviews'[t.conn]].currentQuestionIndex
                     = Len(interviews[t.iid].questions)]_vars

\* C25 witness: a connection has just joined an interview that holds two
\* questions: it is in the room and its session counts two.
C25_Witness ==
    \E c \in Conns, i \in InterviewIds :
        /\ emitted = Emit(c, Event("interview_state", "", 2))
        /\ c \in rooms[i]
        /\ activeInterviews[c] # Null
        /\ sessions[activeInterviews[c]].currentQuestionIndex = 2
        /\ ~sessions[activeInterviews[c]].isProcessing

C27_FirstQuestionBypassesPolicy ==
    [][\A t \in tasks :
        /\ (t.kind = "join" /\ Resolve(t))
              => /\ interviews'[t.iid].status = interviews[t.iid].status
                 /\ \A k \in 1..Len(emitted') : emitted'[k].ev.type # "interview_ended"
        /\ (JoinSucceeds(t) /\ Len(interviews[t.iid].questions) = 0)
              => GoesTo(t, "generateFirst")
        /\ JoinPushFirst(t, "ok")
              => /\ AppendedOne(interviews[t.iid].questions, interviews'[t.iid].questions)
                 /\ emitted' = Emit(t.conn, Event("first_question", "", 1))]_vars

\* C27 witness: the first question has just been sent and persisted although
\* the interview's duration has elapsed; the interview is in progress.
C27_Witness ==
    \E c \in Conns, i \in InterviewIds :
        /\ emitted = Emit(c, Event("first_question", "", 1))
        /\ now - interviews[i].startedAt >= interviews[i].duration
        /\ interviews[i].status = "in_progress"
        /\ Len(interviews[i].questions) = 1

\* The number of user_typing events the step sends to socket d.
TypingSentTo(d) ==
    Cardinality({k \in 1..Len(emitted') :
                    emitted'[k].to = d /\ emitted'[k].ev.type = "user_typing"})

\* C28: a typing event of a connection with a session sends user_typing once
\* to every other connection in the room of the session's interview, nothing
\* to the sender and nothing else; without a session it sends nothing.
C28_TypingGoesToOthers ==
    [][\A c \in Conns :
        Typing(c)
            => IF activeInterviews[c] = Null
               THEN emitted' = <<>>
               ELSE LET room == rooms[sessions[activeInterviews[c]].interviewId]
                    IN /\ \A d \in Conns :
                             TypingSentTo(d) = IF d \in room \ {c} THEN 1 ELSE 0
                       /\ \A k \in 1..Len(emitted') : emitted'[k].ev.type = "user_typing"]_vars

\* C28 witness: user_typing has just been sent to a connection of the room by
\* the other connection, which has a session on the interview.
C28_Witness ==
    \E c, d \in Conns, i \in InterviewIds :
        /\ c # d
        /\ emitted = Emit(d, Event("user_typing", "", 0))
        /\ {c, d} \subseteq rooms[i]
        /\ activeInterviews[c] # Null

\* The awaits that follow the await pc in a pipeline run.
NextPcs(pc) ==
    CASE pc = "transcribe" -> {"analyze"}
      [] pc = "analyze" -> {"pushResponse"}
      [] pc = "pushResponse" -> {"generate", "endUpdate"}
      [] pc = "generate" -> {"synthesize"}
      [] pc = "synthesize" -> {"pushQuestion"}
      [] OTHER -> {}

\* What a run sends when it moves on from the await pc.
StatusAfter(c, pc) ==
    CASE pc = "transcribe" -> Emit(c, Event("processing_response", "analyzing", 0))
      [] pc = "pushResponse" -> Emit(c, Event("processing_response", "generating_question", 0))
      [] OTHER -> <<>>

\* C29: a pipeline run sends 'transcribing' when it starts, 'analyzing' when
\* the transcription is in, 'generating_question' when the response is
\* stored, each at its stage and in this order, and ends with exactly one
\* event: next_question after the question was stored, interview_ended out of
\* endInterview, or error at whatever stage it fails.
C29_EventOrder ==
    [][/\ \A c \in Conns :
            (AudioResponse(c) /\ tasks' # tasks)
                => /\ emitted' = Emit(c, Event("processing_response", "transcribing", 0))
                   /\ \E u \in tasks' \ tasks : u.kind = "audio" /\ u.pc = "transcribe"
       /\ \A t \in tasks :
            (t.kind = "audio" /\ Resolve(t))
                => IF \E u \in tasks' : u.id = t.id
                   THEN /\ \E pc \in NextPcs(t.pc) : GoesTo(t, pc)
                        /\ emitted' = StatusAfter(t.conn, t.pc)
                   ELSE /\ Len(emitted') = 1
                        /\ emitted'[1].to = t.conn
                        /\ emitted'[1].ev.type \in {"next_question", "interview_ended", "error"}
                        /\ emitted'[1].ev.type = "next_question" => t.pc = "pushQuestion"
                        /\ emitted'[1].ev.type = "interview_ended" => t.pc = "endUpdate"]_vars

\* C29 witness: a run that went through every stage has just sent
\* next_question for the second question of the interview.
C29_Witness ==
    \E c \in Conns, i \in InterviewIds :
        /\ emitted = Emit(c, Event("next_question", "", 2))
        /\ Len(interviews[i].questions) = 2
        /\ Len(interviews[i].responses) = 1
        /\ interviews[i].questions[2].by = interviews[i].responses[1].by

\* The last question of interview i after the step was appended by this step
\* for activation t.
AppendedBy(t, i) ==
    /\ AppendedOne(interviews[i].questions, interviews'[i].questions)
    /\ interviews'[i].questions[Len(interviews'[i].questions)].by = t.id

\* C30: a first_question or next_question event is sent in the step in which
\* the $push of its question has resolved, with the question persisted; and a
\* question is appended only by a handler that is past its speech synthesis.
C30_PersistBeforeSend ==
    [][/\ \A k \in 1..Len(emitted') :
            emitted'[k].ev.type \in {"first_question", "next_question"}
                => \E t \in tasks : /\ t.conn = emitted'[k].to
                                    /\ t.pc \in {"pushFirst", "pushQuestion"}
                                    /\ AppendedBy(t, t.iid)
       /\ \A i \in InterviewIds :
            Len(interviews'[i].questions) > Len(interviews[i].questions)
                => \E t \in tasks : t.pc \in {"pushFirst", "pushQuestion"} /\ AppendedBy(t, i)
       /\ \A t \in tasks :
            /\ (t.pc # "pushFirst" /\ GoesTo(t, "pushFirst")) => t.pc = "synthesizeFirst"
            /\ (t.pc # "pushQuestion" /\ GoesTo(t, "pushQuestion")) => t.pc = "synthesize"]_vars

\* C30 witness: first_question has just been sent and the question of the
\* sending join is the one question of the interview.
C30_Witness ==
    \E c \in Conns, i \in InterviewIds :
        /\ emitted = Emit(c, Event("first_question", "", 1))
        /\ Len(interviews[i].questions) = 1
        /\ interviews[i].questions[1].first
        /\ activeInterviews[c] = interviews[i].questions[1].by

C34_OneFirstQuestion ==
    \A i \in InterviewIds :
        Cardinality({k \in 1..Len(interviews[i].questions) : interviews[i].questions[k].first}) <= 1

\* The last step sent socket c an event of a pipeline run in progress.
RunEventSent(c) == Sent(c, "processing_response") \/ Sent(c, "next_question")

C35_OneOngoingInterview ==
    \A u \in Users : Cardinality(Ongoing(u)) <= 1
====
